---- MODULE Spec2Model ----
(***************************************************************************)
(* DetectiveTools (src/agent_tools/actions.py): the caller-facing facade   *)
(* over the scripted case database.  One DetectiveTools instance is shared *)
(* by NumThreads callers.  A caller runs _call directly, or through a      *)
(* wrapper made by as_langchain_tools(), or switches the case with         *)
(* set_case.  Every read or write of an instance attribute is one step, so *)
(* that calls interleave the way Python threads do.                        *)
(*                                                                         *)
(* CaseDB (agent_tools/db.py) and FIELD_ALIAS_CATEGORY                     *)
(* (agent_tools/constants.py) are imported by actions.py; their behaviour  *)
(* is taken from sections 3, 4.1-4.4 of the specification.                 *)
(***************************************************************************)
EXTENDS Integers, Sequences, FiniteSets, TLC

NumThreads == 2
Threads == 1..NumThreads

None == "None"

------------------------------------------------------------------------------
(* The loaded dataset: a small CaseDB.                                      *)

Cases == {"caseA", "caseB"}
CaseIds == Cases \cup {"unknown_case"}

\* actions_catalog: action name -> ordered argument names
ActionsCatalog ==
  [a \in {"interview_witness", "collect_evidence", "check_vehicle_registration"} |->
     CASE a = "interview_witness" -> <<"witness_name">>
       [] a = "collect_evidence" -> <<"location", "evidence_type">>
       [] a = "check_vehicle_registration" -> <<"vehicle_number">>]

\* the tool methods of the class that this model exercises; trace_mobile_number
\* is a method whose action is missing from the loaded catalog
TOOL_METHOD_NAMES ==
  <<"interview_witness", "check_vehicle_registration", "collect_evidence",
    "trace_mobile_number">>

ActionNames == {TOOL_METHOD_NAMES[i] : i \in DOMAIN TOOL_METHOD_NAMES}

MethodArgs(a) ==
  CASE a = "interview_witness" -> {"witness_name"}
    [] a = "check_vehicle_registration" -> {"vehicle_number"}
    [] a = "collect_evidence" -> {"location", "evidence_type"}
    [] a = "trace_mobile_number" -> {"mobile_number"}

case_exists(c) == c \in Cases

actions_for_case(c) ==
  CASE c = "caseA" -> {"interview_witness", "collect_evidence"}
    [] c = "caseB" -> {"interview_witness", "check_vehicle_registration"}
    [] OTHER -> {}

input_arg_order_known(a) == a \in DOMAIN ActionsCatalog
input_arg_order(a) == ActionsCatalog[a]

FIELD_ALIAS_CATEGORY ==
  [n \in {"witness_name", "location", "vehicle_number", "mobile_number"} |->
     CASE n = "witness_name" -> "person"
       [] n = "location" -> "location"
       [] n = "vehicle_number" -> "plate"
       [] n = "mobile_number" -> "phone"]

------------------------------------------------------------------------------
(* Values are strings, modelled as sequences of characters.                 *)

Lower(ch) ==
  CASE ch = "N" -> "n" [] ch = "I" -> "i" [] ch = "U" -> "u" [] ch = "P" -> "p"
    [] ch = "B" -> "b" [] ch = "G" -> "g" [] ch = "K" -> "k" [] OTHER -> ch

CaseFold(s) == [i \in DOMAIN s |-> Lower(s[i])]

RECURSIVE CollapseSpaces(_)
CollapseSpaces(s) ==
  IF Len(s) = 0 THEN s
  ELSE IF Head(s) = " " /\ (Len(s) = 1 \/ s[2] = " ") THEN CollapseSpaces(Tail(s))
  ELSE <<Head(s)>> \o CollapseSpaces(Tail(s))

RECURSIVE TrimLeft(_)
TrimLeft(s) == IF Len(s) > 0 /\ Head(s) = " " THEN TrimLeft(Tail(s)) ELSE s

StripPunct(s) == SelectSeq(s, LAMBDA ch : ch \notin {" ", "-", "+", "."})

Normalize(cat, v) ==
  CASE cat \in {"person", "location"} -> TrimLeft(CollapseSpaces(CaseFold(v)))
    [] cat \in {"plate", "phone"} -> StripPunct(CaseFold(v))
    [] OTHER -> v

\* alias tables: normalized variant -> canonical string
AliasTable(cat) ==
  CASE cat = "person" -> (<<"n", "i">> :> <<"N", "i">>) @@ (<<"n", "u">> :> <<"N", "u">>)
    [] cat = "location" ->
         (<<"p", "-", "b">> :> <<"P", " ", "B">>) @@ (<<"p", " ", "b">> :> <<"P", " ", "B">>)
    [] cat = "plate" -> (<<"g", "7">> :> <<"G", "7">>)
    [] OTHER -> << >>

canonicalize(cat, v) ==
  LET n == Normalize(cat, v)
  IN IF n \in DOMAIN AliasTable(cat) THEN AliasTable(cat)[n] ELSE n

\* scripted tuples of a (case, action): canonical ordered arguments -> response
Scripted(c, a) ==
  CASE c = "caseA" /\ a = "interview_witness" ->
         (<< <<"N", "i">> >> :> "A:witness Ni") @@ (<< <<"N", "u">> >> :> "A:witness Nu")
    [] c = "caseB" /\ a = "interview_witness" ->
         (<< <<"N", "i">> >> :> "B:witness Ni")
    [] c = "caseA" /\ a = "collect_evidence" ->
         (<< <<"P", " ", "B">>, <<"k">> >> :> "A:evidence k at P B")
    [] c = "caseB" /\ a = "check_vehicle_registration" ->
         (<< <<"G", "7">> >> :> "B:plate G7")
    [] OTHER -> << >>

Responses ==
  UNION {{Scripted(c, a)[k] : k \in DOMAIN Scripted(c, a)} : c \in Cases, a \in ActionNames}

lookup_exact(c, a, args) ==
  IF args \in DOMAIN Scripted(c, a) THEN Scripted(c, a)[args] ELSE None

Min2(x, y) == IF x <= y THEN x ELSE y

RECURSIVE EditDistance(_, _)
EditDistance(s, t) ==
  IF Len(s) = 0 THEN Len(t)
  ELSE IF Len(t) = 0 THEN Len(s)
  ELSE Min2(Min2(EditDistance(Tail(s), t) + 1, EditDistance(s, Tail(t)) + 1),
            EditDistance(Tail(s), Tail(t)) + (IF Head(s) = Head(t) THEN 0 ELSE 1))

FuzzyMaxDistance == 1

\* distance of an argument tuple to a scripted key: the worst argument
TupleDistance(args, key) ==
  LET d(i) == EditDistance(CaseFold(args[i]), CaseFold(key[i]))
      I == DOMAIN key
  IN IF DOMAIN args # I THEN FuzzyMaxDistance + 1
     ELSE CHOOSE m \in {d(i) : i \in I} : \A i \in I : d(i) <= m

\* (response or None, debug info): the single candidate within the threshold
lookup_fuzzy(c, a, args) ==
  LET cands == {k \in DOMAIN Scripted(c, a) : TupleDistance(args, k) <= FuzzyMaxDistance}
      dbg == [candidates |-> cands,
              scores |-> {<<k, TupleDistance(args, k)>> : k \in DOMAIN Scripted(c, a)}]
  IN IF Cardinality(cands) = 1
     THEN <<Scripted(c, a)[CHOOSE k \in cands : TRUE], dbg>>
     ELSE <<None, dbg>>

------------------------------------------------------------------------------
(* The facade: DetectiveTools.                                              *)

MatchModes == {"exact", "smart", "strict"}   \* __init__ stores any string

MSG_UNKNOWN_CASE == "[error] Unknown case_id."
MSG_UNKNOWN_ACTION == "[error] Unknown action."
MSG_NOT_AVAILABLE == "[error] This action is not available for the current case."
MSG_MISSING == "[error] Missing required argument '{}'. Required args: {}"
MSG_NO_MATCH_EXACT == "[no-match] Inputs not recognized. Check spelling, use full names, and standard time ranges (e.g., '20:10-20:20')."
MSG_NO_MATCH_SMART == "[no-match] Could not confidently match your inputs. Try exact location names and full person names."

\* a message: its text and the values interpolated into it
Msg(text, interp) == [text |-> text, interp |-> interp]

VARIABLES
  case_id,        \* self.case_id
  match_mode,     \* self.match_mode
  raise_errors,   \* self.raise_errors
  built_raise,    \* the raise_errors argument the instance was constructed with
  th              \* th[t]: the call thread t is running: its position and locals

vars == <<case_id, match_mode, raise_errors, built_raise, th>>

NoOut == [how |-> "none", text |-> None, interp |-> << >>]

Idle ==
  [pc |-> "idle", via |-> "none", action_name |-> None, raise_arg |-> None,
   kwargs |-> << >>, use_raise |-> FALSE, prev |-> FALSE, args_in_order |-> << >>,
   resp |-> None, dbg |-> << >>, out |-> NoOut,
   read |-> {},         \* history: the values of self.case_id this call has read
   queries |-> {}]      \* history: the CaseDB operations this call has invoked

\* DetectiveTools.__init__
Init ==
  /\ case_id \in CaseIds
  /\ match_mode \in MatchModes
  /\ raise_errors \in BOOLEAN
  /\ built_raise = raise_errors
  /\ th = [t \in Threads |-> Idle]

\* argument values a caller may supply, per argument name
ArgInputs(n) ==
  CASE n = "witness_name" -> {<<"N", "i">>, <<"N", "u">>, <<"n", " ", "i">>, <<"n", "o">>, <<"G", "-", "7">>}
    [] n = "location" -> {<<"P", " ", "B">>, <<"P", "-", "b">>, <<"n", "o">>}
    [] n = "evidence_type" -> {<<"k">>, <<"K">>}
    [] n = "vehicle_number" -> {<<"G", "7">>, <<"g", " ", "7">>, <<"N", "i">>}
    [] n = "mobile_number" -> {<<"+", "7">>}

KwargsOver(names) == UNION {[D -> UNION {ArgInputs(n) : n \in D}] : D \in SUBSET names}

\* keyword arguments for action a: any subset of its argument names
KwargsFor(a) ==
  {kw \in KwargsOver(MethodArgs(a)) : \A n \in DOMAIN kw : kw[n] \in ArgInputs(n)}

CompleteKwargsFor(a) == {kw \in KwargsFor(a) : DOMAIN kw = MethodArgs(a)}

\* line 62
UseRaiseInstanceOnly(raise_arg, inst) == inst
UseRaise(raise_arg, inst) == IF raise_arg = None THEN inst ELSE raise_arg = "True"

\* _maybe_error
MaybeError(use_raise, msg) ==
  [how |-> IF use_raise THEN "raised" ELSE "returned", text |-> msg.text, interp |-> msg.interp]

\* return resp
Returned(resp) == [how |-> "returned", text |-> resp, interp |-> << >>]

\* where a finished _call goes: back into the wrapper's finally, or to the caller
AfterCall(l) == IF l.via = "wrapped" THEN "w_restore" ELSE "done"

Finish(l, o) == [l EXCEPT !.pc = AfterCall(l), !.out = o]

Ask(l, q) == l.queries \cup q

------------------------------------------------------------------------------
(* _call, step by step.                                                     *)

\* line 69: if not self._db.case_exists(self.case_id)
CaseCheckSkipped(c) == TRUE
CaseCheckPasses(c) == case_exists(c)

\* line 79: action_name in self._db.actions_for_case(self.case_id)
ActionInCatalog(a, c) == input_arg_order_known(a)
ActionEnabled(a, c) == a \in actions_for_case(c)

\* lines 86-88: one argument, canonicalized when its name has a category
ArgRaw(n, v) == v
ArgCanonical(n, v) ==
  IF n \in DOMAIN FIELD_ALIAS_CATEGORY THEN canonicalize(FIELD_ALIAS_CATEGORY[n], v) ELSE v

\* lines 84-88: the loop over expected_order
ArgsInOrder(expected_order, kwargs) ==
  [i \in DOMAIN expected_order |-> ArgCanonical(expected_order[i], kwargs[expected_order[i]])]

\* the index at which kwargs[name] raises KeyError, 0 when every name is present
FirstMissing(expected_order, kwargs) ==
  LET M == {i \in DOMAIN expected_order : expected_order[i] \notin DOMAIN kwargs}
  IN IF M = {} THEN 0 ELSE CHOOSE i \in M : \A j \in M : i <= j

\* did the loop call canonicalize before it ended at index stop (0: ran to the end)
Canonicalized(expected_order, stop) ==
  \E i \in DOMAIN expected_order :
     /\ stop = 0 \/ i < stop
     /\ expected_order[i] \in DOMAIN FIELD_ALIAS_CATEGORY

\* line 91
MissingArgument(name, expected_order) == Msg(MSG_MISSING, <<name, expected_order>>)

\* line 95: resp is not None or self.match_mode == "exact"
ExactBranch(resp, mode) == resp # None \/ mode = "exact"

\* lines 96-99
ExactOutcome(use_raise, resp) ==
  IF resp = None THEN MaybeError(use_raise, Msg(MSG_NO_MATCH_EXACT, << >>))
  ELSE Returned(resp)

\* lines 103-106: _dbg is dropped
FuzzyOutcomeWithDebug(use_raise, resp, dbg) ==
  IF resp = None THEN MaybeError(use_raise, Msg(MSG_NO_MATCH_SMART, <<dbg>>))
  ELSE Returned(resp)
FuzzyOutcome(use_raise, resp, dbg) ==
  IF resp = None THEN MaybeError(use_raise, Msg(MSG_NO_MATCH_SMART, << >>))
  ELSE Returned(resp)

RaiseArgs == {None, "True", "False"}

\* thread t enters _call(a, raise_errors=ra, **kw)
EnterCall(t, a, ra, kw) ==
  /\ th[t].pc = "idle"
  /\ th' = [th EXCEPT ![t] =
              [Idle EXCEPT !.pc = "call", !.via = "direct", !.action_name = a,
                           !.raise_arg = ra, !.kwargs = kw]]
  /\ UNCHANGED <<case_id, match_mode, raise_errors, built_raise>>

\* thread t enters the _wrapped(**kw) of tool a; its __fn is the method a, which
\* calls _call(a, **kw)
EnterWrapped(t, a, kw) ==
  /\ th[t].pc = "idle"
  /\ th' = [th EXCEPT ![t] =
              [Idle EXCEPT !.pc = "w_prev", !.via = "wrapped", !.action_name = a,
                           !.kwargs = kw]]
  /\ UNCHANGED <<case_id, match_mode, raise_errors, built_raise>>

\* as_langchain_tools: one tool per method whose action is in the catalog
WrappedTools == {a \in ActionNames : a \in DOMAIN ActionsCatalog}

\* line 177: prev = self.raise_errors
WrappedPrev(t) ==
  /\ th[t].pc = "w_prev"
  /\ th' = [th EXCEPT ![t].prev = raise_errors, ![t].pc = "w_set"]
  /\ UNCHANGED <<case_id, match_mode, raise_errors, built_raise>>

\* line 179: self.raise_errors = True, then __fn(...) enters _call
WrappedSet(t) ==
  /\ th[t].pc = "w_set"
  /\ raise_errors' = TRUE
  /\ th' = [th EXCEPT ![t].pc = "call"]
  /\ UNCHANGED <<case_id, match_mode, built_raise>>

\* line 62
CallFlag(t) ==
  /\ th[t].pc = "call"
  /\ th' = [th EXCEPT ![t].use_raise = UseRaise(th[t].raise_arg, raise_errors),
                      ![t].pc = "case"]
  /\ UNCHANGED <<case_id, match_mode, raise_errors, built_raise>>

\* lines 69-76
CallCase(t) ==
  LET l == th[t]
      c == case_id
      seen == [l EXCEPT !.read = l.read \cup {c}]
  IN /\ l.pc = "case"
     /\ th' = [th EXCEPT ![t] =
          IF ~CaseCheckPasses(c)
          THEN Finish([seen EXCEPT !.queries = Ask(l, {"case_exists"})],
                      MaybeError(l.use_raise, Msg(MSG_UNKNOWN_CASE, << >>)))
          ELSE IF ~input_arg_order_known(l.action_name)
          THEN Finish([seen EXCEPT !.queries = Ask(l, {"case_exists", "input_arg_order"})],
                      MaybeError(l.use_raise, Msg(MSG_UNKNOWN_ACTION, << >>)))
          ELSE [seen EXCEPT !.queries = Ask(l, {"case_exists", "input_arg_order"}),
                            !.pc = "enabled"]]
     /\ UNCHANGED <<case_id, match_mode, raise_errors, built_raise>>

\* lines 79-91
CallEnabled(t) ==
  LET l == th[t]
      c == case_id
      expected_order == input_arg_order(l.action_name)
      stop == FirstMissing(expected_order, l.kwargs)
      seen == [l EXCEPT !.read = l.read \cup {c},
                        !.queries = Ask(l, {"actions_for_case"})]
      looped == [seen EXCEPT !.queries =
                   IF Canonicalized(expected_order, stop)
                   THEN Ask(seen, {"canonicalize"}) ELSE seen.queries]
  IN /\ l.pc = "enabled"
     /\ th' = [th EXCEPT ![t] =
          IF ~ActionEnabled(l.action_name, c)
          THEN Finish(seen, MaybeError(l.use_raise, Msg(MSG_NOT_AVAILABLE, << >>)))
          ELSE IF stop # 0
          THEN Finish(looped, MaybeError(l.use_raise,
                                MissingArgument(expected_order[stop], expected_order)))
          ELSE [looped EXCEPT !.args_in_order = ArgsInOrder(expected_order, l.kwargs),
                              !.pc = "exact"]]
     /\ UNCHANGED <<case_id, match_mode, raise_errors, built_raise>>

\* lines 94-99
CallExact(t) ==
  LET l == th[t]
      c == case_id
      resp == lookup_exact(c, l.action_name, l.args_in_order)
      seen == [l EXCEPT !.read = l.read \cup {c},
                        !.queries = Ask(l, {"lookup_exact"}),
                        !.resp = resp]
  IN /\ l.pc = "exact"
     /\ th' = [th EXCEPT ![t] =
          IF ExactBranch(resp, match_mode)
          THEN Finish(seen, ExactOutcome(l.use_raise, resp))
          ELSE [seen EXCEPT !.pc = "fuzzy"]]
     /\ UNCHANGED <<case_id, match_mode, raise_errors, built_raise>>

\* lines 102-106
CallFuzzy(t) ==
  LET l == th[t]
      c == case_id
      r == lookup_fuzzy(c, l.action_name, l.args_in_order)
      seen == [l EXCEPT !.read = l.read \cup {c},
                        !.queries = Ask(l, {"lookup_fuzzy"}),
                        !.resp = r[1], !.dbg = r[2]]
  IN /\ l.pc = "fuzzy"
     /\ th' = [th EXCEPT ![t] = Finish(seen, FuzzyOutcome(l.use_raise, r[1], r[2]))]
     /\ UNCHANGED <<case_id, match_mode, raise_errors, built_raise>>

\* line 182: finally: self.raise_errors = prev
WrappedRestoreSkipped(t) ==
  /\ th[t].pc = "w_restore"
  /\ th' = [th EXCEPT ![t].pc = "done"]
  /\ UNCHANGED <<case_id, match_mode, raise_errors, built_raise>>
WrappedRestore(t) ==
  /\ th[t].pc = "w_restore"
  /\ raise_errors' = th[t].prev
  /\ th' = [th EXCEPT ![t].pc = "done"]
  /\ UNCHANGED <<case_id, match_mode, built_raise>>

\* the caller takes the outcome; the call's frame is gone
Return(t) ==
  /\ th[t].pc = "done"
  /\ th' = [th EXCEPT ![t] = Idle]
  /\ UNCHANGED <<case_id, match_mode, raise_errors, built_raise>>

\* set_case
SetCase(c) ==
  /\ case_id' = c
  /\ UNCHANGED <<match_mode, raise_errors, built_raise, th>>

Step(t) ==
  \/ WrappedPrev(t) \/ WrappedSet(t) \/ CallFlag(t) \/ CallCase(t) \/ CallEnabled(t)
  \/ CallExact(t) \/ CallFuzzy(t) \/ WrappedRestore(t) \/ Return(t)

------------------------------------------------------------------------------
(* Spec: the callers take turns, as in solution.py and test_actions.py: an   *)
(* operation starts when no call is in flight.  Every action name, raise    *)
(* argument and keyword-argument set is tried.                              *)

Quiet == \A t \in Threads : th[t].pc = "idle"

BeginDirect(t) ==
  /\ Quiet
  /\ \E a \in ActionNames, ra \in RaiseArgs : \E kw \in KwargsFor(a) : EnterCall(t, a, ra, kw)

BeginWrapped(t) ==
  /\ Quiet
  /\ \E a \in WrappedTools : \E kw \in CompleteKwargsFor(a) : EnterWrapped(t, a, kw)

SwitchCase(c) == Quiet /\ SetCase(c)

Next ==
  \/ \E t \in Threads : BeginDirect(t) \/ BeginWrapped(t) \/ Step(t)
  \/ \E c \in CaseIds : SwitchCase(c)

Spec == Init /\ [][Next]_vars

------------------------------------------------------------------------------
(* ThreadedSpec: the callers run on their own threads and share the         *)
(* instance, as the tools of make_preds.py do under an agent that runs tool *)
(* calls in parallel.  Between any two steps of a call another thread may   *)
(* take a step.  The instance is built as run_case builds it              *)
(* (match_mode="smart", raise_errors=False), the direct calls are calls of  *)
(* the tool methods, and the keyword arguments are narrowed to one hit and  *)
(* one near miss per action, which keeps the interleavings enumerable.      *)

\* make_preds.py line 54
ThreadedInit == Init /\ match_mode = "smart" /\ raise_errors = FALSE

ThreadedKwargsFor(a) ==
  CASE a = "interview_witness" ->
         {[witness_name |-> <<"N", "i">>], [witness_name |-> <<"n", "o">>]}
    [] a = "collect_evidence" -> {[location |-> <<"P", "-", "b">>, evidence_type |-> <<"k">>]}
    [] a = "check_vehicle_registration" -> {[vehicle_number |-> <<"g", " ", "7">>]}
    [] a = "trace_mobile_number" -> {[mobile_number |-> <<"+", "7">>]}

\* lines 109-155: a tool method calls _call with its own name and no raise_errors
ThreadedDirect(t) ==
  \E a \in ActionNames : \E kw \in ThreadedKwargsFor(a) : EnterCall(t, a, None, kw)

ThreadedWrapped(t) ==
  \E a \in WrappedTools : \E kw \in ThreadedKwargsFor(a) : EnterWrapped(t, a, kw)

ThreadedNext ==
  \/ \E t \in Threads : ThreadedDirect(t) \/ ThreadedWrapped(t) \/ Step(t)
  \/ \E c \in CaseIds : SetCase(c)

ThreadedSpec == ThreadedInit /\ [][ThreadedNext]_vars

------------------------------------------------------------------------------
(* Properties.                                                              *)

Done(t) == th[t].pc = "done"

FixedMessages ==
  {MSG_UNKNOWN_CASE, MSG_UNKNOWN_ACTION, MSG_NOT_AVAILABLE, MSG_NO_MATCH_EXACT,
   MSG_NO_MATCH_SMART}

Failure(o) == o.text \in FixedMessages \cup {MSG_MISSING}

\* the raise flag in force for a call begun in a quiet state
FlagInForce(l) ==
  IF l.via = "wrapped" THEN TRUE
  ELSE IF l.raise_arg = None THEN raise_errors ELSE l.raise_arg = "True"

Complete(l) ==
  /\ l.action_name \in DOMAIN ActionsCatalog
  /\ \A i \in DOMAIN ActionsCatalog[l.action_name] :
        ActionsCatalog[l.action_name][i] \in DOMAIN l.kwargs

\* the key a scripted tuple must have to answer the call: the supplied values,
\* canonicalized per field category, in the action's declared argument order
CanonKey(a, kw) ==
  [i \in DOMAIN ActionsCatalog[a] |->
     LET n == ActionsCatalog[a][i]
     IN IF n \in DOMAIN FIELD_ALIAS_CATEGORY
        THEN canonicalize(FIELD_ALIAS_CATEGORY[n], kw[n]) ELSE kw[n]]

\* C1: a call made while case_id is not a case of the dataset ends in the
\* unknown-case message, returned or raised, whatever the action name, arguments,
\* match mode and raise setting are, and it asks the database nothing but
\* case_exists: no call gets past the case check.
C1_UnknownCase ==
  \A t \in Threads :
     /\ th[t].pc \in {"enabled", "exact", "fuzzy"} => case_id \in Cases
     /\ Done(t) /\ case_id \notin Cases =>
          /\ th[t].out.text = MSG_UNKNOWN_CASE
          /\ Len(th[t].out.interp) = 0
          /\ th[t].out.how \in {"returned", "raised"}
          /\ th[t].queries = {"case_exists"}

C1_Witness ==
  \E t \in Threads :
     /\ Done(t) /\ case_id \notin Cases
     /\ th[t].action_name \notin DOMAIN ActionsCatalog
     /\ DOMAIN th[t].kwargs = {}
     /\ th[t].out.how = "raised"

\* C2: when the active case exists, a cataloged action that is not enabled for
\* it ends in the not-available message whatever the arguments are, and the
\* unknown-action message is produced exactly when the name is absent from the
\* catalog; in no state is it produced for a cataloged name.
C2_NotEnabledVsUnknown ==
  \A t \in Threads :
     Done(t) =>
       /\ th[t].out.text = MSG_UNKNOWN_ACTION => th[t].action_name \notin DOMAIN ActionsCatalog
       /\ case_id \in Cases =>
            /\ th[t].action_name \notin DOMAIN ActionsCatalog => th[t].out.text = MSG_UNKNOWN_ACTION
            /\ (/\ th[t].action_name \in DOMAIN ActionsCatalog
                /\ th[t].action_name \notin actions_for_case(case_id))
               => th[t].out.text = MSG_NOT_AVAILABLE

C2_Witness ==
  \E t \in Threads :
     /\ Done(t) /\ case_id = "caseA"
     /\ th[t].action_name = "check_vehicle_registration"
     /\ DOMAIN th[t].kwargs = {}
     /\ th[t].out.text = MSG_NOT_AVAILABLE

\* C3: an output that is not a scripted response is one of the five fixed
\* messages with nothing interpolated, or the missing-argument message with the
\* missing argument's name and the action's argument-name list; a response
\* carries nothing else; the debug info of lookup_fuzzy is in no output.
C3_NoLeak ==
  \A t \in Threads :
     Done(t) =>
       LET o == th[t].out
       IN IF o.text \in Responses THEN Len(o.interp) = 0
          ELSE \/ o.text \in FixedMessages /\ Len(o.interp) = 0
               \/ /\ o.text = MSG_MISSING
                  /\ Len(o.interp) = 2
                  /\ o.interp[1] \in MethodArgs(th[t].action_name) \ DOMAIN th[t].kwargs
                  /\ o.interp[2] = ActionsCatalog[th[t].action_name]

\* an ambiguous fuzzy miss: two scripted candidates were in the debug info
C3_Witness ==
  \E t \in Threads :
     /\ Done(t)
     /\ th[t].out.text = MSG_NO_MATCH_SMART
     /\ "lookup_fuzzy" \in th[t].queries
     /\ Cardinality(th[t].dbg.candidates) = 2

\* C4: lookup_fuzzy is invoked only when the exact lookup returned nothing and
\* match_mode is "smart".
C4_FuzzyOnlyWhenSmart ==
  \A t \in Threads :
     "lookup_fuzzy" \in th[t].queries =>
        match_mode = "smart" /\ lookup_exact(case_id, th[t].action_name, th[t].args_in_order) = None

\* C5: in exact mode, for an existing case, an action enabled for it and all
\* required arguments supplied, the call returns a response exactly when the
\* canonicalized arguments in declared order are the key of a scripted tuple of
\* that (case, action), and then that tuple's response; so a call with a scripted
\* tuple's own canonical arguments returns its response.
C5_ExactIff ==
  \A t \in Threads :
     (/\ Done(t) /\ match_mode = "exact" /\ case_id \in Cases
      /\ Complete(th[t]) /\ th[t].action_name \in actions_for_case(case_id))
     => LET a == th[t].action_name
            key == CanonKey(a, th[t].kwargs)
            raw == [i \in DOMAIN ActionsCatalog[a] |-> th[t].kwargs[ActionsCatalog[a][i]]]
            table == Scripted(case_id, a)
        IN /\ IF key \in DOMAIN table
              THEN th[t].out = [how |-> "returned", text |-> table[key], interp |-> << >>]
              ELSE th[t].out.text = MSG_NO_MATCH_EXACT
           /\ raw \in DOMAIN table => th[t].out.text = table[raw]

\* a non-canonical spelling of a scripted location is answered in exact mode
C5_Witness ==
  \E t \in Threads :
     /\ Done(t) /\ match_mode = "exact" /\ case_id = "caseA"
     /\ th[t].action_name = "collect_evidence"
     /\ DOMAIN th[t].kwargs = {"location", "evidence_type"}
     /\ th[t].kwargs["location"] = <<"P", "-", "b">>
     /\ th[t].out.text = "A:evidence k at P B"

\* C6: every failure is returned as a string or raised with that same string,
\* as the flag says: the per-call raise_errors when given, else the instance's
\* (which a wrapper has set); a failure is one fixed message; a successful
\* lookup is returned and never raised.
C6_RaiseOrReturn ==
  \A t \in Threads :
     Done(t) =>
       LET o == th[t].out
       IN /\ o.how \in {"returned", "raised"}
          /\ Failure(o) \/ o.text \in Responses
          /\ Failure(o) => o.how = (IF FlagInForce(th[t]) THEN "raised" ELSE "returned")
          /\ o.text \in Responses => o.how = "returned"

C6_Witness ==
  \E t \in Threads :
     /\ Done(t) /\ th[t].via = "direct"
     /\ th[t].raise_arg = "True" /\ ~raise_errors
     /\ th[t].out.text = MSG_NO_MATCH_EXACT
     /\ th[t].out.how = "raised"

\* C7: every error or no-match outcome of a tool from as_langchain_tools() is
\* raised, never returned, whatever other calls are in flight.
C7_WrappedAlwaysRaises ==
  \A t \in Threads :
     Done(t) /\ th[t].via = "wrapped" /\ Failure(th[t].out) => th[t].out.how = "raised"

\* C8: on an instance built with raise_errors=False, a direct call that passes
\* no raise_errors never raises, whatever other callers do.
C8_DirectNeverRaises ==
  \A t \in Threads :
     (Done(t) /\ th[t].via = "direct" /\ th[t].raise_arg = None /\ ~built_raise)
     => th[t].out.how # "raised"

\* the outcome the instance's current attributes and the call's inputs determine
Outcome(c, mode, use, a, kw) ==
  LET err(text, interp) ==
        [how |-> IF use THEN "raised" ELSE "returned", text |-> text, interp |-> interp]
      ok(r) == [how |-> "returned", text |-> r, interp |-> << >>]
      order == ActionsCatalog[a]
      M == {i \in DOMAIN order : order[i] \notin DOMAIN kw}
      key == CanonKey(a, kw)
      table == Scripted(c, a)
      fz == lookup_fuzzy(c, a, key)[1]
  IN IF c \notin Cases THEN err(MSG_UNKNOWN_CASE, << >>)
     ELSE IF a \notin DOMAIN ActionsCatalog THEN err(MSG_UNKNOWN_ACTION, << >>)
     ELSE IF a \notin actions_for_case(c) THEN err(MSG_NOT_AVAILABLE, << >>)
     ELSE IF M # {}
     THEN err(MSG_MISSING, <<order[CHOOSE i \in M : \A j \in M : i <= j], order>>)
     ELSE IF key \in DOMAIN table THEN ok(table[key])
     ELSE IF mode = "exact" THEN err(MSG_NO_MATCH_EXACT, << >>)
     ELSE IF fz = None THEN err(MSG_NO_MATCH_SMART, << >>)
     ELSE ok(fz)

\* no call is in flight: every caller is idle or holds a finished call's outcome
AtRest == \A t \in Threads : th[t].pc \in {"idle", "done"}

C9_AtRest ==
  /\ AtRest => raise_errors = built_raise
  /\ \A t \in Threads :
        Done(t) =>
          th[t].out = Outcome(case_id, match_mode, FlagInForce(th[t]),
                              th[t].action_name, th[t].kwargs)

C9_Step ==
  /\ ~Quiet => case_id' = case_id /\ match_mode' = match_mode
  /\ Quiet /\ Quiet' => match_mode' = match_mode /\ raise_errors' = raise_errors

\* C9: with the callers taking turns, a completed call (direct or wrapped,
\* returning or raising) leaves raise_errors at the value the instance had
\* before it, and no step of a call writes case_id or match_mode; set_case
\* changes case_id alone; the outcome of a call is a function of the current
\* case_id, match_mode, raise flag, action and arguments.
C9_CallsAreStateless == []C9_AtRest /\ [][C9_Step]_vars

\* a wrapped call has raised and put raise_errors back to False
C9_Witness ==
  \E t \in Threads :
     /\ Done(t) /\ th[t].via = "wrapped" /\ th[t].prev = FALSE
     /\ th[t].out.how = "raised"
     /\ raise_errors = FALSE

\* C10: a call that returns a response read one case id throughout: its case
\* check, its enabled check and its lookups used the same self.case_id.
C10_OneCasePerCall ==
  \A t \in Threads :
     Done(t) /\ th[t].out.text \in Responses => Cardinality(th[t].read) = 1

====
